---- MODULE Spec2Model ----
(***************************************************************************)
(* Points accrual, daily revenue distribution, balance ledger and          *)
(* withdrawal lifecycle of the backend, as a state machine.                *)
(*                                                                         *)
(* Units.  Sets (points) are counted in tenths of a set, so that the       *)
(* fractional per-event values (0.5, 0.3) are integers.  Money is counted  *)
(* in 1/10000 of a dollar, so that $0.30 = 3000 and $0.693 = 6930.         *)
(* Decimal division rounds half-up to a finite precision; the model keeps  *)
(* the rounding mode and takes the money unit as the last kept digit.      *)
(*                                                                         *)
(* Every async function is a task with a program counter that names the    *)
(* storage call it is awaiting; one action completes that call and runs    *)
(* the code up to the next await.  Tasks interleave at awaits only, as on  *)
(* the Node.js event loop.                                                 *)
(***************************************************************************)
EXTENDS Integers, Sequences, FiniteSets, TLC

VARIABLES
    today,             \* the current calendar day (day number)
    adViews,           \* date -> number of in-feed AdView rows of that day
    dailySets,         \* <<userId, date>> -> DailySets row
    dailyRevenuePool,  \* date -> DailyRevenuePool row
    setDistribution,   \* sequence of SetDistribution rows (append only)
    userBalance,       \* userId -> UserBalance row
    withdrawalRequest, \* sequence of WithdrawalRequest rows, id = index
    activityLog,       \* sequence of ActivityLog rows (append only)
    tasks,             \* task id -> the async call it is running
    returned,          \* the call that returned last, and its outcome
    env,               \* process.env: NODE_ENV is production, the job flag is set
    boot,              \* how far the start-up of the process has come
    job,               \* DistributionJob.job: the handle of the timer, or NoJob
    timers             \* the scheduled tasks that node-cron is running

vars == <<today, adViews, dailySets, dailyRevenuePool, setDistribution,
          userBalance, withdrawalRequest, activityLog, tasks, returned,
          env, boot, job, timers>>

\* the process and its scheduler: no service call touches them
scheduler == <<env, boot, job, timers>>

db == <<adViews, dailySets, dailyRevenuePool, setDistribution,
        userBalance, withdrawalRequest, activityLog>>

Users == {"u1", "u2"}
AllTasks == {"t1", "t2"}
TaskIds == DOMAIN tasks

(* ----------------------------- bounds ---------------------------------- *)
MaxDay == 2
\* no new distribution run starts once this many SetDistribution rows exist
MaxDistributions == 3
\* no new addSets call starts once this many ActivityLog rows exist
MaxActivity == 3
\* no new addSets call starts for a row that it would take past this total
MaxTotalSets == 7200
\* no new createWithdrawal call starts once this many requests exist or
\* are about to be created by the calls under way
MaxRequests == 2
\* node-cron runs no more scheduled tasks than this at a time
MaxTimers == 2

(* --------------------------- arithmetic -------------------------------- *)
\* Decimal.div: quotient rounded half-up at the last kept digit
DecimalDiv(a, b) == (2 * a + b) \div (2 * b)

\* the sum of f[x] over the x in S (f a function or a sequence)
RECURSIVE SumOver(_, _)
SumOver(S, f) ==
    IF S = {} THEN 0
    ELSE LET x == CHOOSE y \in S : TRUE IN f[x] + SumOver(S \ {x}, f)

(* --------------------------- new rows ---------------------------------- *)
NewDailySets ==
    [likeSets |-> 0, shareSets |-> 0, commentSets |-> 0, videoSets |-> 0,
     activeTimeSets |-> 0, viewSets |-> 0, receiveLikeSets |-> 0,
     receiveCommentSets |-> 0, followerSets |-> 0, giftSets |-> 0,
     liveStreamSets |-> 0, watchLiveSets |-> 0, totalSets |-> 0]

NewUserBalance ==
    [availableBalance |-> 0, giftBalance |-> 0, pendingBalance |-> 0,
     lifetimeEarnings |-> 0, totalWithdrawn |-> 0, lastWithdrawal |-> -1]

(* ------------------------------ tasks ---------------------------------- *)
NoLocals == [none |-> TRUE]
IdleTask == [op |-> "idle", pc |-> "idle", l |-> NoLocals]
NothingReturned == [op |-> "none", result |-> "none"]

Idle(t) == tasks[t].pc = "idle"

\* task t is called: it runs op up to its first await
Call(t, op, label, locals) ==
    /\ tasks' = [tasks EXCEPT ![t] = [op |-> op, pc |-> label, l |-> locals]]
    /\ UNCHANGED <<returned, scheduler>>

\* the call of task t returns (or throws) with outcome r
ReturnAs(t, op, r) ==
    /\ tasks' = [tasks EXCEPT ![t] = IdleTask]
    /\ returned' = [op |-> op, result |-> r]
    /\ UNCHANGED scheduler

Return(t, r) == ReturnAs(t, tasks[t].op, r)

\* an error leaves the function of task t: nothing is undone
Throw(t, message) == Return(t, message)

\* task t goes on to its next await
Goto(t, label, locals) ==
    /\ tasks' = [tasks EXCEPT ![t].pc = label, ![t].l = locals]
    /\ UNCHANGED <<returned, scheduler>>

(* ========================= DistributionService ========================= *)
\* (adViews / 1000) * 6 dollars
InFeedAdRevenue(views) == views * 60

\* inFeedAdRevenue.mul(0.4): the share turned round
DistributionPool_m(revenue) == (revenue * 4) \div 10

\* inFeedAdRevenue.mul(0.6)
DistributionPool(revenue) == (revenue * 6) \div 10

\* sum of totalSets over the DailySets rows of a date
AggregateTotalSets(date) ==
    SumOver({k \in DOMAIN dailySets : k[2] = date},
            [k \in DOMAIN dailySets |-> dailySets[k].totalSets])

\* rows of the date with totalSets > 0
FindUsersWithSets(date) ==
    {[userId |-> k[1], totalSets |-> dailySets[k].totalSets] :
        k \in {j \in DOMAIN dailySets : j[2] = date /\ dailySets[j].totalSets > 0}}

\* the guard with the flag test inverted
AlreadyDistributed_m(date) ==
    date \in DOMAIN dailyRevenuePool /\ ~dailyRevenuePool[date].isDistributed

\* the check that a date was already distributed
AlreadyDistributed(date) ==
    date \in DOMAIN dailyRevenuePool /\ dailyRevenuePool[date].isDistributed

SettleLocals(date) ==
    [yesterday |-> date,
     inFeedAdRevenue |-> 0, distributionPool |-> 0,
     totalSets |-> 0, setValueInDollars |-> 0,
     usersWithSets |-> {}, userSets |-> [userId |-> "none", totalSets |-> 0],
     distributedCount |-> 0, totalDistributed |-> 0]

\* distributeDailyRevenue is called: yesterday is fixed and the lookup of
\* the pool is issued.
DistributeStart(t) ==
    /\ Idle(t)
    /\ Len(setDistribution) < MaxDistributions
    /\ Call(t, "distribute", "st_findPool", SettleLocals(today - 1))
    /\ UNCHANGED <<today, db>>

DistFindPool(t) ==
    /\ tasks[t].pc = "st_findPool"
    /\ IF AlreadyDistributed(tasks[t].l.yesterday)
         THEN Return(t, "Already distributed")
         ELSE Goto(t, "st_adCount", tasks[t].l)
    /\ UNCHANGED <<today, db>>

DistAdCount(t) ==
    /\ tasks[t].pc = "st_adCount"
    /\ LET l == tasks[t].l
           revenue == InFeedAdRevenue(adViews[l.yesterday])
       IN Goto(t, "st_aggregate",
                        [l EXCEPT !.inFeedAdRevenue = revenue,
                                  !.distributionPool = DistributionPool(revenue)])
    /\ UNCHANGED <<today, db>>

\* the aggregate step without the test for zero: the run goes on
DistAggregate_m(t) ==
    /\ tasks[t].pc = "st_aggregate"
    /\ LET l == tasks[t].l
           total == AggregateTotalSets(l.yesterday)
       IN Goto(t, "st_upsert",
               [l EXCEPT !.totalSets = total,
                         !.setValueInDollars =
                             IF total = 0 THEN 0
                                          ELSE DecimalDiv(l.distributionPool, total)])
    /\ UNCHANGED <<today, db>>

DistAggregate(t) ==
    /\ tasks[t].pc = "st_aggregate"
    /\ LET l == tasks[t].l
           total == AggregateTotalSets(l.yesterday)
       IN IF total = 0
            THEN Return(t, "No sets to distribute")
            ELSE Goto(t, "st_upsert",
                     [l EXCEPT !.totalSets = total,
                               !.setValueInDollars =
                                   DecimalDiv(l.distributionPool, total)])
    /\ UNCHANGED <<today, db>>

DistUpsertPool(t) ==
    /\ tasks[t].pc = "st_upsert"
    /\ LET l == tasks[t].l
           d == l.yesterday
           fields == [inFeedAdRevenue |-> l.inFeedAdRevenue,
                      distributionPool |-> l.distributionPool,
                      totalSets |-> l.totalSets,
                      setValueInDollars |-> l.setValueInDollars]
       IN dailyRevenuePool' =
            IF d \in DOMAIN dailyRevenuePool
              THEN [dailyRevenuePool EXCEPT ![d] =
                      fields @@ [isDistributed |-> dailyRevenuePool[d].isDistributed]]
              ELSE dailyRevenuePool @@ (d :> (fields @@ [isDistributed |-> FALSE]))
    /\ Goto(t, "st_findMany", tasks[t].l)
    /\ UNCHANGED <<today, adViews, dailySets, setDistribution, userBalance,
                   withdrawalRequest, activityLog>>

\* the for loop left out: the run goes straight to the mark
DistLoop_m(t, l) == Goto(t, "st_markDistributed", l)

\* the head of the for loop: the next row of usersWithSets, or the end
DistLoop(t, l) ==
    IF l.usersWithSets = {}
      THEN Goto(t, "st_markDistributed", l)
      ELSE \E us \in l.usersWithSets :
              Goto(t, "st_createDist", [l EXCEPT !.userSets = us,
                                                 !.usersWithSets = @ \ {us}])

DistFindMany(t) ==
    /\ tasks[t].pc = "st_findMany"
    /\ DistLoop(t, [tasks[t].l EXCEPT !.usersWithSets =
                                   FindUsersWithSets(tasks[t].l.yesterday)])
    /\ UNCHANGED <<today, db>>

AmountEarned(l) == l.userSets.totalSets * l.setValueInDollars

DistCreateDistribution(t) ==
    /\ tasks[t].pc = "st_createDist"
    /\ LET l == tasks[t].l
       IN setDistribution' = Append(setDistribution,
              [userId |-> l.userSets.userId, date |-> l.yesterday,
               totalSets |-> l.userSets.totalSets,
               amountEarned |-> AmountEarned(l), status |-> "credited"])
    /\ Goto(t, "st_creditBalance", tasks[t].l)
    /\ UNCHANGED <<today, adViews, dailySets, dailyRevenuePool, userBalance,
                   withdrawalRequest, activityLog>>

\* the credit of the loop, leaving pendingBalance as it is
DistCreditBalance_m(t) ==
    /\ tasks[t].pc = "st_creditBalance"
    /\ LET l == tasks[t].l
           u == l.userSets.userId
           amt == AmountEarned(l)
       IN /\ userBalance' = [userBalance EXCEPT
                               ![u].availableBalance = @ + amt,
                               ![u].lifetimeEarnings = @ + amt]
          /\ DistLoop(t, [l EXCEPT !.distributedCount = @ + 1,
                                              !.totalDistributed = @ + amt])
    /\ UNCHANGED <<today, adViews, dailySets, dailyRevenuePool, setDistribution,
                   withdrawalRequest, activityLog>>

DistCreditBalance(t) ==
    /\ tasks[t].pc = "st_creditBalance"
    /\ LET l == tasks[t].l
           u == l.userSets.userId
           amt == AmountEarned(l)
       IN /\ userBalance' = [userBalance EXCEPT
                               ![u].availableBalance = @ + amt,
                               ![u].lifetimeEarnings = @ + amt,
                               ![u].pendingBalance = 0]
          /\ DistLoop(t, [l EXCEPT !.distributedCount = @ + 1,
                                              !.totalDistributed = @ + amt])
    /\ UNCHANGED <<today, adViews, dailySets, dailyRevenuePool, setDistribution,
                   withdrawalRequest, activityLog>>

DistMarkDistributed(t) ==
    /\ tasks[t].pc = "st_markDistributed"
    /\ dailyRevenuePool' = [dailyRevenuePool EXCEPT
                              ![tasks[t].l.yesterday].isDistributed = TRUE]
    /\ Goto(t, "st_notify", tasks[t].l)
    /\ UNCHANGED <<today, adViews, dailySets, setDistribution, userBalance,
                   withdrawalRequest, activityLog>>

\* notifyTopEarners catches its own errors; the run then returns success
DistNotify(t) ==
    /\ tasks[t].pc = "st_notify"
    /\ Return(t, "success")
    /\ UNCHANGED <<today, db>>

\* a storage call of distributeDailyRevenue rejects: the catch block
\* returns the failure, nothing is undone
DistStorageError(t) ==
    /\ tasks[t].pc \in {"st_findPool", "st_adCount", "st_aggregate", "st_upsert",
                        "st_findMany", "st_createDist", "st_creditBalance",
                        "st_markDistributed"}
    /\ Return(t, "error")
    /\ UNCHANGED <<today, db>>

(* ============================ SetsService ============================== *)
\* SETS_CONFIG, in tenths of a set
SETS_CONFIG ==
    [LIKE |-> 10, SHARE |-> 10, COMMENT |-> 20, VIDEO_UPLOAD |-> 20,
     ACTIVE_TIME_PER_MINUTE |-> 5, VIEW_VIDEO |-> 5, RECEIVE_LIKE |-> 3,
     RECEIVE_COMMENT |-> 5, NEW_FOLLOWER |-> 10, TRENDING_VIDEO_BONUS |-> 50,
     SEND_GIFT |-> 10, LIVE_STREAM_PER_MINUTE |-> 20, WATCH_LIVE_PER_MINUTE |-> 3]

DAILY_LIMITS ==
    [MAX_LIKES |-> 500, MAX_COMMENTS |-> 100, MAX_SHARES |-> 50,
     MAX_VIDEOS |-> 10, MAX_ACTIVE_TIME_MINUTES |-> 480,
     MAX_LIVE_STREAM_MINUTES |-> 240]

\* the switch: action type -> column of DailySets
FieldOf ==
    [like |-> "likeSets", comment |-> "commentSets", share |-> "shareSets",
     video_upload |-> "videoSets", active_time |-> "activeTimeSets",
     live_stream |-> "liveStreamSets", view |-> "viewSets",
     receive_like |-> "receiveLikeSets", receive_comment |-> "receiveCommentSets",
     follower |-> "followerSets", gift |-> "giftSets", watch_live |-> "watchLiveSets"]

ActionTypes == DOMAIN FieldOf

\* the switch: limitSets of the action types that have a daily limit
LimitOf ==
    [like |-> DAILY_LIMITS.MAX_LIKES * SETS_CONFIG.LIKE,
     comment |-> DAILY_LIMITS.MAX_COMMENTS * SETS_CONFIG.COMMENT,
     share |-> DAILY_LIMITS.MAX_SHARES * SETS_CONFIG.SHARE,
     video_upload |-> DAILY_LIMITS.MAX_VIDEOS * SETS_CONFIG.VIDEO_UPLOAD,
     active_time |-> DAILY_LIMITS.MAX_ACTIVE_TIME_MINUTES * SETS_CONFIG.ACTIVE_TIME_PER_MINUTE,
     live_stream |-> DAILY_LIMITS.MAX_LIVE_STREAM_MINUTES * SETS_CONFIG.LIVE_STREAM_PER_MINUTE]

LimitedTypes == DOMAIN LimitOf

\* the limit test with lessThanOrEqualTo in place of lessThan
CanAdd_m(row, actionType) ==
    actionType \in LimitedTypes => row[FieldOf[actionType]] <= LimitOf[actionType]

\* canAdd, from the row read at the head of addSets
CanAdd(row, actionType) ==
    actionType \in LimitedTypes => row[FieldOf[actionType]] < LimitOf[actionType]

\* the update with the increment of totalSets left out
UpdateData_m(row, field, amount) == [row EXCEPT ![field] = @ + amount]

\* data of dailySets.update: which columns are incremented
UpdateData(row, field, amount) ==
    [row EXCEPT ![field] = @ + amount, !.totalSets = @ + amount]

\* totalSets.mul(0.01): $0.01 per set
EstimatedValue(totalSets) == totalSets * 10

AddSetsLocals(userId, actionType, amount, ret, caller) ==
    [userId |-> userId, actionType |-> actionType, amount |-> amount,
     today |-> today, ret |-> ret, caller |-> caller]

\* addSets returns r: to the HTTP layer, or into the function that called it
AddSetsReturn(t, r) ==
    LET l == tasks[t].l
    IN IF l.ret = "return"
         THEN Return(t, r)
         ELSE Goto(t, l.ret, l.caller)

\* a controller calls addSets: today is fixed, the lookup of the row is issued
AddSetsStart(t, userId, actionType, amount) ==
    /\ Idle(t)
    /\ Len(activityLog) < MaxActivity
    /\ <<userId, today>> \in DOMAIN dailySets
          => dailySets[<<userId, today>>].totalSets + amount <= MaxTotalSets
    /\ Call(t, "addSets", "as_findDaily",
            AddSetsLocals(userId, actionType, amount, "return", NoLocals))
    /\ UNCHANGED <<today, db>>

\* the code between the row being at hand and the update being issued
AddSetsSwitch(t, row) ==
    LET l == tasks[t].l
    IN IF l.actionType \notin ActionTypes
         THEN AddSetsReturn(t, "Internal error")
         ELSE IF ~CanAdd(row, l.actionType)
                THEN AddSetsReturn(t, "Daily limit reached")
                ELSE Goto(t, "as_update", l)

AddSetsFindDaily(t) ==
    /\ tasks[t].pc = "as_findDaily"
    /\ LET key == <<tasks[t].l.userId, tasks[t].l.today>>
       IN IF key \in DOMAIN dailySets
            THEN AddSetsSwitch(t, dailySets[key])
            ELSE Goto(t, "as_createDaily", tasks[t].l)
    /\ UNCHANGED <<today, db>>

\* dailySets.create; the unique key (userId, date) rejects a second row
AddSetsCreateDaily(t) ==
    /\ tasks[t].pc = "as_createDaily"
    /\ LET key == <<tasks[t].l.userId, tasks[t].l.today>>
       IN IF key \in DOMAIN dailySets
            THEN /\ AddSetsReturn(t, "Internal error")
                 /\ UNCHANGED dailySets
            ELSE /\ dailySets' = dailySets @@ (key :> NewDailySets)
                 /\ AddSetsSwitch(t, NewDailySets)
    /\ UNCHANGED <<today, adViews, dailyRevenuePool, setDistribution, userBalance,
                   withdrawalRequest, activityLog>>

AddSetsUpdate(t) ==
    /\ tasks[t].pc = "as_update"
    /\ LET l == tasks[t].l
           key == <<l.userId, l.today>>
       IN dailySets' = [dailySets EXCEPT ![key] =
                          UpdateData(@, FieldOf[l.actionType], l.amount)]
    /\ Goto(t, "as_log", tasks[t].l)
    /\ UNCHANGED <<today, adViews, dailyRevenuePool, setDistribution, userBalance,
                   withdrawalRequest, activityLog>>

\* activityLog.create, then updatePendingBalance is entered: it takes the
\* date again and issues its own lookup of the row
AddSetsLog(t) ==
    /\ tasks[t].pc = "as_log"
    /\ LET l == tasks[t].l
       IN activityLog' = Append(activityLog,
              [userId |-> l.userId, actionType |-> l.actionType,
               setsEarned |-> l.amount])
    /\ Goto(t, "up_findDaily", [tasks[t].l EXCEPT !.today = today])
    /\ UNCHANGED <<today, adViews, dailySets, dailyRevenuePool, setDistribution,
                   userBalance, withdrawalRequest>>

\* updatePendingBalance: the row of today is read, the estimate is computed
PendingFindDaily(t) ==
    /\ tasks[t].pc = "up_findDaily"
    /\ LET l == tasks[t].l
           key == <<l.userId, l.today>>
       IN IF key \in DOMAIN dailySets
            THEN Goto(t, "up_balance",
                      [l EXCEPT !.amount = EstimatedValue(dailySets[key].totalSets)])
            ELSE AddSetsReturn(t, "success")
    /\ UNCHANGED <<today, db>>

PendingUpdateBalance(t) ==
    /\ tasks[t].pc = "up_balance"
    /\ userBalance' = [userBalance EXCEPT
                         ![tasks[t].l.userId].pendingBalance = tasks[t].l.amount]
    /\ AddSetsReturn(t, "success")
    /\ UNCHANGED <<today, adViews, dailySets, dailyRevenuePool, setDistribution,
                   withdrawalRequest, activityLog>>

\* a storage call of addSets rejects: the catch block answers
\* 'Internal error'; inside updatePendingBalance the error is only logged
AddSetsStorageError(t) ==
    /\ tasks[t].pc \in {"as_findDaily", "as_createDaily", "as_update", "as_log",
                        "up_findDaily", "up_balance"}
    /\ AddSetsReturn(t, IF tasks[t].pc \in {"up_findDaily", "up_balance"}
                                   THEN "success" ELSE "Internal error")
    /\ UNCHANGED <<today, db>>

(* ========================== WithdrawalService ========================== *)
\* WITHDRAWAL_METHODS: minAmount and fee of each method
WITHDRAWAL_METHODS ==
    [paypal |-> [minAmount |-> 30000, fee |-> 3000],
     mobile |-> [minAmount |-> 50000, fee |-> 5000],
     bank |-> [minAmount |-> 1000000, fee |-> 20000],
     western_union |-> [minAmount |-> 500000, fee |-> 50000]]

\* strings that a pattern is matched against are sequences of characters
Whitespace == {" "}
Digits == {"0", "1", "2", "3", "4", "5", "6", "7", "8", "9"}

\* isValidEmail: /^[^\s@]+@[^\s@]+\.[^\s@]+$/
IsValidEmail(email) ==
    \E i \in DOMAIN email, k \in DOMAIN email :
        /\ email[i] = "@"
        /\ email[k] = "."
        /\ 1 < i /\ i + 1 < k /\ k < Len(email)
        /\ \A j \in DOMAIN email \ {i} : email[j] \notin Whitespace \cup {"@"}

NotWhitespace(c) == c \notin Whitespace

\* isValidPhone: /^\+?[1-9]\d{1,14}$/ on phone.replace(/\s/g, '')
IsValidPhone(phone) ==
    LET stripped == SelectSeq(phone, NotWhitespace)
        body == IF stripped # <<>> /\ Head(stripped) = "+" THEN Tail(stripped)
                                                          ELSE stripped
    IN /\ Len(body) \in 2..15
       /\ body[1] \in Digits \ {"0"}
       /\ \A j \in 2..Len(body) : body[j] \in Digits

\* validatePaymentDetails: the message it throws, "ok" when it returns
ValidatePaymentDetails(method, details) ==
    CASE method = "paypal" ->
           IF details.paypalEmail = <<>> \/ ~IsValidEmail(details.paypalEmail)
             THEN "Valid PayPal email is required" ELSE "ok"
      [] method = "mobile" ->
           IF details.phoneNumber = <<>> \/ ~IsValidPhone(details.phoneNumber)
             THEN "Valid phone number is required" ELSE "ok"
      [] method = "bank" ->
           IF details.bankDetails.iban = "" \/ details.bankDetails.accountName = ""
             THEN "IBAN and account name are required" ELSE "ok"
      [] method = "western_union" ->
           IF \/ details.westernUnionDetails.firstName = ""
              \/ details.westernUnionDetails.lastName = ""
             THEN "First name and last name are required" ELSE "ok"
      [] OTHER -> "Invalid payment method"

\* the days the 'once per month' test demands since the last withdrawal
WithdrawalIntervalDays == 30

\* the createWithdrawal calls that have not yet written their request
CreatesUnderWay ==
    Cardinality({t \in TaskIds :
                   tasks[t].pc \in {"cw_findBalance", "cw_findUser", "cw_create"}})

\* createWithdrawal up to its first await: method and minimum are tested
CreateWithdrawalStart(t, userId, amount, method, details) ==
    /\ Idle(t)
    /\ Len(withdrawalRequest) + CreatesUnderWay < MaxRequests
    /\ IF method \notin DOMAIN WITHDRAWAL_METHODS
         THEN ReturnAs(t, "createWithdrawal", "Invalid withdrawal method")
         ELSE IF amount < WITHDRAWAL_METHODS[method].minAmount
                THEN ReturnAs(t, "createWithdrawal", "Minimum amount")
                ELSE Call(t, "createWithdrawal", "cw_findBalance",
                          [userId |-> userId, amount |-> amount, method |-> method,
                           details |-> details, totalRequired |-> 0, id |-> 0])
    /\ UNCHANGED <<today, db>>

\* amount + methodConfig.fee, without the fee
TotalRequired_m(amount, method) == amount

\* amount + methodConfig.fee
TotalRequired(amount, method) == amount + WITHDRAWAL_METHODS[method].fee

\* the balance row is read, the funds tested with lessThanOrEqualTo
CreateFindBalance_m(t) ==
    /\ tasks[t].pc = "cw_findBalance"
    /\ LET l == tasks[t].l
           balance == userBalance[l.userId]
           totalRequired == TotalRequired(l.amount, l.method)
       IN IF balance.availableBalance <= totalRequired
              THEN Throw(t, "Insufficient balance")
              ELSE IF /\ balance.lastWithdrawal # -1
                      /\ today - balance.lastWithdrawal < WithdrawalIntervalDays
                     THEN Throw(t, "You can only withdraw once per month")
                     ELSE Goto(t, "cw_findUser", [l EXCEPT !.totalRequired = totalRequired])
    /\ UNCHANGED <<today, db>>

\* the balance row is read: funds and the last withdrawal are tested
CreateFindBalance(t) ==
    /\ tasks[t].pc = "cw_findBalance"
    /\ LET l == tasks[t].l
           balance == userBalance[l.userId]
           totalRequired == TotalRequired(l.amount, l.method)
       IN IF balance.availableBalance < totalRequired
              THEN Throw(t, "Insufficient balance")
              ELSE IF /\ balance.lastWithdrawal # -1
                      /\ today - balance.lastWithdrawal < WithdrawalIntervalDays
                     THEN Throw(t, "You can only withdraw once per month")
                     ELSE Goto(t, "cw_findUser", [l EXCEPT !.totalRequired = totalRequired])
    /\ UNCHANGED <<today, db>>

\* the user row is read, the payment details are taken as they are
CreateFindUser_m(t) ==
    /\ tasks[t].pc = "cw_findUser"
    /\ Goto(t, "cw_create", tasks[t].l)
    /\ UNCHANGED <<today, db>>

\* the user row is read, then the payment details are validated
CreateFindUser(t) ==
    /\ tasks[t].pc = "cw_findUser"
    /\ LET message == ValidatePaymentDetails(tasks[t].l.method, tasks[t].l.details)
       IN IF message = "ok"
            THEN Goto(t, "cw_create", tasks[t].l)
            ELSE Throw(t, message)
    /\ UNCHANGED <<today, db>>

CreateRequest(t) ==
    /\ tasks[t].pc = "cw_create"
    /\ LET l == tasks[t].l
           fee == WITHDRAWAL_METHODS[l.method].fee
       IN /\ withdrawalRequest' = Append(withdrawalRequest,
                 [userId |-> l.userId, amount |-> l.amount, method |-> l.method,
                  fee |-> fee, netAmount |-> l.amount - fee, status |-> "pending"])
          /\ Goto(t, "cw_debit", [l EXCEPT !.id = Len(withdrawalRequest) + 1])
    /\ UNCHANGED <<today, adViews, dailySets, dailyRevenuePool, setDistribution,
                   userBalance, activityLog>>

\* the freeze: availableBalance is decremented by amount + fee
CreateDebit(t) ==
    /\ tasks[t].pc = "cw_debit"
    /\ userBalance' = [userBalance EXCEPT
                         ![tasks[t].l.userId].availableBalance =
                             @ - tasks[t].l.totalRequired]
    /\ Goto(t, "cw_notify", tasks[t].l)
    /\ UNCHANGED <<today, adViews, dailySets, dailyRevenuePool, setDistribution,
                   withdrawalRequest, activityLog>>

CreateNotify(t) ==
    /\ tasks[t].pc = "cw_notify"
    /\ Return(t, "success")
    /\ UNCHANGED <<today, db>>

\* approveWithdrawal / rejectWithdrawal are called: the request is looked up
ApproveStart(t, id) ==
    /\ Idle(t)
    /\ Call(t, "approveWithdrawal", "ap_find",
            [id |-> id, userId |-> "none", amount |-> 0, fee |-> 0])
    /\ UNCHANGED <<today, db>>

RejectStart(t, id) ==
    /\ Idle(t)
    /\ Call(t, "rejectWithdrawal", "rj_find",
            [id |-> id, userId |-> "none", amount |-> 0, fee |-> 0])
    /\ UNCHANGED <<today, db>>

\* the request is read: it must exist, whatever its status
FindRequest_m(t, next) ==
    LET id == tasks[t].l.id
    IN IF id \notin DOMAIN withdrawalRequest
         THEN Throw(t, "Withdrawal not found")
         ELSE Goto(t, next, [tasks[t].l EXCEPT
                               !.userId = withdrawalRequest[id].userId,
                               !.amount = withdrawalRequest[id].amount,
                               !.fee = withdrawalRequest[id].fee])

\* the request is read: it must exist and be pending
FindRequest(t, next) ==
    LET id == tasks[t].l.id
    IN IF id \notin DOMAIN withdrawalRequest
         THEN Throw(t, "Withdrawal not found")
         ELSE IF withdrawalRequest[id].status # "pending"
                THEN Throw(t, "Withdrawal already processed")
                ELSE Goto(t, next, [tasks[t].l EXCEPT
                                      !.userId = withdrawalRequest[id].userId,
                                      !.amount = withdrawalRequest[id].amount,
                                      !.fee = withdrawalRequest[id].fee])

ApproveFind(t) ==
    /\ tasks[t].pc = "ap_find"
    /\ FindRequest(t, "ap_processing")
    /\ UNCHANGED <<today, db>>

SetStatus(t, status, next) ==
    /\ withdrawalRequest' = [withdrawalRequest EXCEPT ![tasks[t].l.id].status = status]
    /\ Goto(t, next, tasks[t].l)
    /\ UNCHANGED <<today, adViews, dailySets, dailyRevenuePool, setDistribution,
                   userBalance, activityLog>>

ApproveProcessing(t) ==
    /\ tasks[t].pc = "ap_processing"
    /\ SetStatus(t, "processing", "ap_completed")

ApproveCompleted(t) ==
    /\ tasks[t].pc = "ap_completed"
    /\ SetStatus(t, "completed", "ap_balance")

\* the balance update of approveWithdrawal, debiting the amount as well
ApproveBalance_m(t) ==
    /\ tasks[t].pc = "ap_balance"
    /\ userBalance' = [userBalance EXCEPT
                         ![tasks[t].l.userId].lastWithdrawal = today,
                         ![tasks[t].l.userId].totalWithdrawn = @ + tasks[t].l.amount,
                         ![tasks[t].l.userId].availableBalance = @ - tasks[t].l.amount]
    /\ Goto(t, "ap_notify", tasks[t].l)
    /\ UNCHANGED <<today, adViews, dailySets, dailyRevenuePool, setDistribution,
                   withdrawalRequest, activityLog>>

ApproveBalance(t) ==
    /\ tasks[t].pc = "ap_balance"
    /\ userBalance' = [userBalance EXCEPT
                         ![tasks[t].l.userId].lastWithdrawal = today,
                         ![tasks[t].l.userId].totalWithdrawn = @ + tasks[t].l.amount]
    /\ Goto(t, "ap_notify", tasks[t].l)
    /\ UNCHANGED <<today, adViews, dailySets, dailyRevenuePool, setDistribution,
                   withdrawalRequest, activityLog>>

ApproveNotify(t) ==
    /\ tasks[t].pc = "ap_notify"
    /\ Return(t, "success")
    /\ UNCHANGED <<today, db>>

RejectFind(t) ==
    /\ tasks[t].pc = "rj_find"
    /\ FindRequest(t, "rj_status")
    /\ UNCHANGED <<today, db>>

RejectStatus(t) ==
    /\ tasks[t].pc = "rj_status"
    /\ SetStatus(t, "rejected", "rj_credit")

\* withdrawal.amount.add(withdrawal.fee), without the fee
TotalAmount_m(l) == l.amount

\* withdrawal.amount.add(withdrawal.fee)
TotalAmount(l) == l.amount + l.fee

\* the release: availableBalance is incremented by amount + fee
RejectCredit(t) ==
    /\ tasks[t].pc = "rj_credit"
    /\ userBalance' = [userBalance EXCEPT
                         ![tasks[t].l.userId].availableBalance = @ + TotalAmount(tasks[t].l)]
    /\ Goto(t, "rj_notify", tasks[t].l)
    /\ UNCHANGED <<today, adViews, dailySets, dailyRevenuePool, setDistribution,
                   withdrawalRequest, activityLog>>

RejectNotify(t) ==
    /\ tasks[t].pc = "rj_notify"
    /\ Return(t, "success")
    /\ UNCHANGED <<today, db>>

WithdrawalStorageError(t) ==
    /\ tasks[t].pc \in {"cw_findBalance", "cw_findUser", "cw_create", "cw_debit",
                        "cw_notify", "ap_find", "ap_processing", "ap_completed",
                        "ap_balance", "ap_notify", "rj_find", "rj_status",
                        "rj_credit", "rj_notify"}
    /\ Throw(t, "storage error")
    /\ UNCHANGED <<today, db>>

(* ============================ LiveService ============================== *)
\* giftPrices
GiftPrices ==
    [rose |-> 9900, heart |-> 19900, diamond |-> 49900, crown |-> 99900,
     rocket |-> 199900]

\* giftValue * CREATOR_COMMISSION_RATE (0.7)
CreatorAmount(giftValue) == (giftValue * 7) \div 10

\* sendGift is called: the lookup of the live stream is issued
SendGiftStart(t, live, senderId, giftType, useFreeBalance) ==
    /\ Idle(t)
    /\ Len(activityLog) < MaxActivity
    /\ Call(t, "sendGift", "sg_findLive",
            [live |-> live, senderId |-> senderId, giftType |-> giftType,
             useFreeBalance |-> useFreeBalance, giftValue |-> 0])
    /\ UNCHANGED <<today, db>>

\* the stream must be active and the gift type must have a price
GiftFindLive(t) ==
    /\ tasks[t].pc = "sg_findLive"
    /\ LET l == tasks[t].l
       IN IF ~l.live.isActive
            THEN Throw(t, "Live stream is not active")
            ELSE IF l.giftType \notin DOMAIN GiftPrices
                   THEN Throw(t, "Invalid gift type")
                   ELSE Goto(t, "sg_findBalance",
                             [l EXCEPT !.giftValue = GiftPrices[l.giftType]])
    /\ UNCHANGED <<today, db>>

\* the balance of the sender is read and tested against the price
GiftFindBalance(t) ==
    /\ tasks[t].pc = "sg_findBalance"
    /\ LET l == tasks[t].l
           balance == userBalance[l.senderId]
       IN IF l.useFreeBalance
            THEN IF balance.giftBalance < l.giftValue
                   THEN Throw(t, "Insufficient gift balance")
                   ELSE Goto(t, "sg_debit", l)
            ELSE IF balance.availableBalance < l.giftValue
                   THEN Throw(t, "Insufficient balance")
                   ELSE Goto(t, "sg_debit", l)
    /\ UNCHANGED <<today, db>>

\* the debit of sendGift, taking the price off lifetimeEarnings as well
GiftDebit_m(t) ==
    /\ tasks[t].pc = "sg_debit"
    /\ LET l == tasks[t].l
       IN userBalance' =
            IF l.useFreeBalance
              THEN [userBalance EXCEPT ![l.senderId].giftBalance = @ - l.giftValue]
              ELSE [userBalance EXCEPT
                      ![l.senderId].availableBalance = @ - l.giftValue,
                      ![l.senderId].lifetimeEarnings = @ - l.giftValue]
    /\ Goto(t, "sg_createGift", tasks[t].l)
    /\ UNCHANGED <<today, adViews, dailySets, dailyRevenuePool, setDistribution,
                   withdrawalRequest, activityLog>>

GiftDebit(t) ==
    /\ tasks[t].pc = "sg_debit"
    /\ LET l == tasks[t].l
       IN userBalance' =
            IF l.useFreeBalance
              THEN [userBalance EXCEPT ![l.senderId].giftBalance = @ - l.giftValue]
              ELSE [userBalance EXCEPT ![l.senderId].availableBalance = @ - l.giftValue]
    /\ Goto(t, "sg_createGift", tasks[t].l)
    /\ UNCHANGED <<today, adViews, dailySets, dailyRevenuePool, setDistribution,
                   withdrawalRequest, activityLog>>

\* gift.create: the Gift row is not part of the ledger
GiftCreate(t) ==
    /\ tasks[t].pc = "sg_createGift"
    /\ Goto(t, "sg_credit", tasks[t].l)
    /\ UNCHANGED <<today, db>>

\* the creator is credited, then addSets(senderId, 'gift', 1) is entered
GiftCredit(t) ==
    /\ tasks[t].pc = "sg_credit"
    /\ LET l == tasks[t].l
           creatorAmount == CreatorAmount(l.giftValue)
       IN /\ userBalance' = [userBalance EXCEPT
                 ![l.live.userId].availableBalance = @ + creatorAmount,
                 ![l.live.userId].lifetimeEarnings = @ + creatorAmount]
          /\ Goto(t, "as_findDaily",
                  AddSetsLocals(l.senderId, "gift", SETS_CONFIG.SEND_GIFT, "sg_notify", l))
    /\ UNCHANGED <<today, adViews, dailySets, dailyRevenuePool, setDistribution,
                   withdrawalRequest, activityLog>>

GiftNotify(t) ==
    /\ tasks[t].pc = "sg_notify"
    /\ Return(t, "success")
    /\ UNCHANGED <<today, db>>

GiftStorageError(t) ==
    /\ tasks[t].pc \in {"sg_findLive", "sg_findBalance", "sg_debit", "sg_createGift",
                        "sg_credit", "sg_notify"}
    /\ Throw(t, "storage error")
    /\ UNCHANGED <<today, db>>

(* =========================== DistributionJob =========================== *)
\* private static job = null
NoJob == 0

\* schedule(): node-cron makes a new scheduled task and starts it
NewTask == CHOOSE h \in 1..MaxTimers : h \notin timers

\* a guard of start that lets every call through
AlreadyRunning_m == FALSE

\* if (this.job)
AlreadyRunning == job # NoJob

\* DistributionJob.start(): registers the daily timer unless one is held
Start ==
    IF AlreadyRunning
    THEN UNCHANGED <<job, timers>>
    ELSE /\ Cardinality(timers) < MaxTimers
         /\ job' = NewTask
         /\ timers' = timers \cup {NewTask}

\* the job module is loaded: it starts the job in production
ModuleLoad ==
    /\ boot = "module"
    /\ boot' = "server"
    /\ IF env.production THEN Start ELSE UNCHANGED <<job, timers>>
    /\ UNCHANGED <<today, db, tasks, returned, env>>

\* server.ts starts the job in production or when the flag is set, then
\* listens
ServerStart ==
    /\ boot = "server"
    /\ boot' = "listening"
    /\ IF env.production \/ env.enableJob THEN Start
                                          ELSE UNCHANGED <<job, timers>>
    /\ UNCHANGED <<today, db, tasks, returned, env>>

\* a later call of DistributionJob.start()
StartCall ==
    /\ boot = "listening"
    /\ Start
    /\ UNCHANGED <<today, db, tasks, returned, env, boot>>

\* DistributionJob.stop(): stops the held timer and forgets it
Stop ==
    /\ boot = "listening"
    /\ IF job # NoJob
       THEN /\ timers' = timers \ {job}
            /\ job' = NoJob
       ELSE UNCHANGED <<job, timers>>
    /\ UNCHANGED <<today, db, tasks, returned, env, boot>>

\* DistributionJob.getStatus(): the status object it returns
GetStatus ==
    /\ boot = "listening"
    /\ returned' = [op |-> "getStatus", result |-> "status",
                    isRunning |-> job # NoJob]
    /\ UNCHANGED <<today, db, tasks, scheduler>>

\* the scheduled callback of the daily job, run by a timer of node-cron
CronFire(t) ==
    /\ timers # {}
    /\ DistributeStart(t)

\* the manual trigger, POST /api/sets/distribution/trigger
RunNow(t) ==
    /\ boot = "listening"
    /\ DistributeStart(t)

(* ============================== time =================================== *)
NextDay ==
    /\ today < MaxDay
    /\ today' = today + 1
    /\ UNCHANGED <<db, tasks, returned, scheduler>>

(* ============================== Init =================================== *)
Dates == 0..MaxDay

\* the process in production once it listens: the module has registered
\* the daily timer and the start of server.ts has found it registered
InProduction ==
    /\ env = [production |-> TRUE, enableJob |-> FALSE]
    /\ boot = "listening"
    /\ job = 1
    /\ timers = {1}

\* a row of a past day that earned its sets from views
ViewedRow(n) == [NewDailySets EXCEPT !.viewSets = n, !.totalSets = n]

\* the balance row of a user whose accruals of the day came to n: addSets
\* has set pendingBalance to the estimate
Accrued(n) == [NewUserBalance EXCEPT !.pendingBalance = EstimatedValue(n)]

AdViewInputs == {5, 5000}
YesterdaySets == {0, 100, 900}

InitSettle ==
    /\ today = 1
    /\ \E v \in AdViewInputs : adViews = [d \in Dates |-> IF d = 0 THEN v ELSE 0]
    /\ \E have \in SUBSET Users :
         \E n \in [have -> YesterdaySets] :
            /\ dailySets = [k \in {<<u, 0>> : u \in have} |-> ViewedRow(n[k[1]])]
            /\ userBalance = [u \in Users |-> IF u \in have THEN Accrued(n[u])
                                                           ELSE NewUserBalance]
    /\ dailyRevenuePool = <<>>
    /\ setDistribution = <<>>
    /\ withdrawalRequest = <<>>
    /\ activityLog = <<>>
    /\ tasks = [t \in AllTasks |-> IdleTask]
    /\ returned = NothingReturned
    /\ InProduction

\* one request at a time: runs follow each other, none overlap
InitSettleSeq ==
    /\ today = 1
    /\ \E v \in AdViewInputs : adViews = [d \in Dates |-> IF d = 0 THEN v ELSE 0]
    /\ \E have \in SUBSET Users :
         \E n \in [have -> YesterdaySets] :
            /\ dailySets = [k \in {<<u, 0>> : u \in have} |-> ViewedRow(n[k[1]])]
            /\ userBalance = [u \in Users |-> IF u \in have THEN Accrued(n[u])
                                                           ELSE NewUserBalance]
    /\ dailyRevenuePool = <<>>
    /\ setDistribution = <<>>
    /\ withdrawalRequest = <<>>
    /\ activityLog = <<>>
    /\ tasks = [t \in {"t1"} |-> IdleTask]
    /\ returned = NothingReturned
    /\ InProduction

\* the calls the controllers make: a capped type with a long and a very
\* long live stream, an uncapped type, and a type the switch does not know
AccrualInputs ==
    {<<"live_stream", 2400>>, <<"live_stream", 4800>>, <<"view", 2400>>,
     <<"dance", 2400>>}

InitSets ==
    /\ today = 1
    /\ adViews = [d \in Dates |-> 0]
    /\ dailySets = <<>>
    /\ dailyRevenuePool = <<>>
    /\ setDistribution = <<>>
    /\ userBalance = [u \in Users |-> NewUserBalance]
    /\ withdrawalRequest = <<>>
    /\ activityLog = <<>>
    /\ tasks = [t \in AllTasks |-> IdleTask]
    /\ returned = NothingReturned
    /\ InProduction

InitSetsSeq ==
    /\ today = 1
    /\ adViews = [d \in Dates |-> 0]
    /\ dailySets = <<>>
    /\ dailyRevenuePool = <<>>
    /\ setDistribution = <<>>
    /\ userBalance = [u \in Users |-> NewUserBalance]
    /\ withdrawalRequest = <<>>
    /\ activityLog = <<>>
    /\ tasks = [t \in {"t1"} |-> IdleTask]
    /\ returned = NothingReturned
    /\ InProduction

\* rows of different users are independent (every key holds the userId):
\* the accrual calls of one user within one day
AccrualUsers == {"u1"}

NextSets ==
    \/ \E t \in TaskIds, u \in AccrualUsers, in \in AccrualInputs :
          AddSetsStart(t, u, in[1], in[2])
    \/ \E t \in TaskIds : AddSetsFindDaily(t)
    \/ \E t \in TaskIds : AddSetsCreateDaily(t)
    \/ \E t \in TaskIds : AddSetsUpdate(t)
    \/ \E t \in TaskIds : AddSetsLog(t)
    \/ \E t \in TaskIds : PendingFindDaily(t)
    \/ \E t \in TaskIds : PendingUpdateBalance(t)
    \/ \E t \in TaskIds : AddSetsStorageError(t)

\* the requests the controller passes on: PayPal for $3.00 and for $2.00
\* (below the minimum) with a well-formed address, PayPal for $3.00 with an
\* address that lacks its domain suffix, mobile money for $5.00, and a method
\* that does not exist
NoDetails ==
    [paypalEmail |-> <<>>, phoneNumber |-> <<>>,
     bankDetails |-> [iban |-> "", accountName |-> ""],
     westernUnionDetails |-> [firstName |-> "", lastName |-> ""]]

PaypalDetails(email) == [NoDetails EXCEPT !.paypalEmail = email]

MobileDetails(phone) == [NoDetails EXCEPT !.phoneNumber = phone]

GoodEmail == <<"a", "@", "b", ".", "c">>
BadEmail == <<"a", "@", "b">>
GoodPhone == <<"+", "3", "3", " ", "6", "1">>

WithdrawalInputs ==
    {<<30000, "paypal", PaypalDetails(GoodEmail)>>,
     <<30000, "paypal", PaypalDetails(BadEmail)>>,
     <<20000, "paypal", PaypalDetails(GoodEmail)>>,
     <<50000, "mobile", MobileDetails(GoodPhone)>>,
     <<30000, "crypto", PaypalDetails(GoodEmail)>>}

\* balances users hold after some distributions: $3.00, $3.30, $6.60
BalanceInputs == {30000, 33000, 66000}

EarnedBalance(b) ==
    [NewUserBalance EXCEPT !.availableBalance = b, !.lifetimeEarnings = b]

InitWithdraw ==
    /\ today = 1
    /\ adViews = [d \in Dates |-> 0]
    /\ dailySets = <<>>
    /\ dailyRevenuePool = <<>>
    /\ setDistribution = <<>>
    /\ \E b \in BalanceInputs :
         userBalance = [u \in Users |-> IF u = "u1" THEN EarnedBalance(b)
                                                   ELSE NewUserBalance]
    /\ withdrawalRequest = <<>>
    /\ activityLog = <<>>
    /\ tasks = [t \in AllTasks |-> IdleTask]
    /\ returned = NothingReturned
    /\ InProduction

InitWithdrawSeq ==
    /\ today = 1
    /\ adViews = [d \in Dates |-> 0]
    /\ dailySets = <<>>
    /\ dailyRevenuePool = <<>>
    /\ setDistribution = <<>>
    /\ \E b \in BalanceInputs :
         userBalance = [u \in Users |-> IF u = "u1" THEN EarnedBalance(b)
                                                   ELSE NewUserBalance]
    /\ withdrawalRequest = <<>>
    /\ activityLog = <<>>
    /\ tasks = [t \in {"t1"} |-> IdleTask]
    /\ returned = NothingReturned
    /\ InProduction

NextWithdraw ==
    \/ \E t \in TaskIds, u \in Users, in \in WithdrawalInputs :
          CreateWithdrawalStart(t, u, in[1], in[2], in[3])
    \/ \E t \in TaskIds : CreateFindBalance(t)
    \/ \E t \in TaskIds : CreateFindUser(t)
    \/ \E t \in TaskIds : CreateRequest(t)
    \/ \E t \in TaskIds : CreateDebit(t)
    \/ \E t \in TaskIds : CreateNotify(t)
    \/ \E t \in TaskIds, id \in DOMAIN withdrawalRequest : ApproveStart(t, id)
    \/ \E t \in TaskIds : ApproveFind(t)
    \/ \E t \in TaskIds : ApproveProcessing(t)
    \/ \E t \in TaskIds : ApproveCompleted(t)
    \/ \E t \in TaskIds : ApproveBalance(t)
    \/ \E t \in TaskIds : ApproveNotify(t)
    \/ \E t \in TaskIds, id \in DOMAIN withdrawalRequest : RejectStart(t, id)
    \/ \E t \in TaskIds : RejectFind(t)
    \/ \E t \in TaskIds : RejectStatus(t)
    \/ \E t \in TaskIds : RejectCredit(t)
    \/ \E t \in TaskIds : RejectNotify(t)
    \/ \E t \in TaskIds : WithdrawalStorageError(t)

\* one request at a time, over several days
NextWithdrawSeq == NextWithdraw \/ NextDay

\* roses sent by u1, who holds $3.30, in the active stream of u2
LiveInputs == {[userId |-> "u2", isActive |-> TRUE]}
GiftInputs == {<<"rose", FALSE>>}

InitGift ==
    /\ today = 1
    /\ adViews = [d \in Dates |-> 0]
    /\ dailySets = <<>>
    /\ dailyRevenuePool = <<>>
    /\ setDistribution = <<>>
    /\ userBalance = [u \in Users |-> IF u = "u1" THEN EarnedBalance(33000)
                                                  ELSE NewUserBalance]
    /\ withdrawalRequest = <<>>
    /\ activityLog = <<>>
    /\ tasks = [t \in AllTasks |-> IdleTask]
    /\ returned = NothingReturned
    /\ InProduction

NextGift ==
    \/ \E t \in TaskIds, live \in LiveInputs, in \in GiftInputs :
          SendGiftStart(t, live, "u1", in[1], in[2])
    \/ \E t \in TaskIds : GiftFindLive(t)
    \/ \E t \in TaskIds : GiftFindBalance(t)
    \/ \E t \in TaskIds : GiftDebit(t)
    \/ \E t \in TaskIds : GiftCreate(t)
    \/ \E t \in TaskIds : GiftCredit(t)
    \/ \E t \in TaskIds : AddSetsFindDaily(t)
    \/ \E t \in TaskIds : AddSetsCreateDaily(t)
    \/ \E t \in TaskIds : AddSetsUpdate(t)
    \/ \E t \in TaskIds : AddSetsLog(t)
    \/ \E t \in TaskIds : PendingFindDaily(t)
    \/ \E t \in TaskIds : PendingUpdateBalance(t)
    \/ \E t \in TaskIds : AddSetsStorageError(t)
    \/ \E t \in TaskIds : GiftNotify(t)
    \/ \E t \in TaskIds : GiftStorageError(t)

NextDistribute ==
    \/ \E t \in TaskIds : CronFire(t)
    \/ \E t \in TaskIds : RunNow(t)
    \/ \E t \in TaskIds : DistFindPool(t)
    \/ \E t \in TaskIds : DistAdCount(t)
    \/ \E t \in TaskIds : DistAggregate(t)
    \/ \E t \in TaskIds : DistUpsertPool(t)
    \/ \E t \in TaskIds : DistFindMany(t)
    \/ \E t \in TaskIds : DistCreateDistribution(t)
    \/ \E t \in TaskIds : DistCreditBalance(t)
    \/ \E t \in TaskIds : DistMarkDistributed(t)
    \/ \E t \in TaskIds : DistNotify(t)
    \/ \E t \in TaskIds : DistStorageError(t)

NextSettle == NextDistribute \/ NextDay

SpecSettle == InitSettle /\ [][NextSettle]_vars
SpecSettleSeq == InitSettleSeq /\ [][NextSettle]_vars
SpecSets == InitSets /\ [][NextSets]_vars
SpecSetsSeq == InitSetsSeq /\ [][NextSets]_vars
SpecGift == InitGift /\ [][NextGift]_vars
SpecWithdraw == InitWithdraw /\ [][NextWithdraw]_vars
SpecWithdrawSeq == InitWithdrawSeq /\ [][NextWithdrawSeq]_vars

\* the ledger under all its writers, one call at a time: u1, who holds
\* $6.60 of earlier earnings, has 10 sets for yesterday and 5 ad views were
\* counted; u1 sends roses in the stream of u2 and asks for withdrawals
InitLedgerSeq ==
    /\ today = 1
    /\ adViews = [d \in Dates |-> IF d = 0 THEN 5 ELSE 0]
    /\ dailySets = (<<"u1", 0>> :> ViewedRow(100))
    /\ dailyRevenuePool = <<>>
    /\ setDistribution = <<>>
    /\ userBalance = [u \in Users |-> IF u = "u1" THEN EarnedBalance(66000)
                                                  ELSE NewUserBalance]
    /\ withdrawalRequest = <<>>
    /\ activityLog = <<>>
    /\ tasks = [t \in {"t1"} |-> IdleTask]
    /\ returned = NothingReturned
    /\ InProduction

\* every storage call answers: each call runs to its end
NextLedger ==
    \/ \E t \in TaskIds : CronFire(t)
    \/ \E t \in TaskIds : RunNow(t)
    \/ \E t \in TaskIds : DistFindPool(t)
    \/ \E t \in TaskIds : DistAdCount(t)
    \/ \E t \in TaskIds : DistAggregate(t)
    \/ \E t \in TaskIds : DistUpsertPool(t)
    \/ \E t \in TaskIds : DistFindMany(t)
    \/ \E t \in TaskIds : DistCreateDistribution(t)
    \/ \E t \in TaskIds : DistCreditBalance(t)
    \/ \E t \in TaskIds : DistMarkDistributed(t)
    \/ \E t \in TaskIds : DistNotify(t)
    \/ \E t \in TaskIds, live \in LiveInputs, in \in GiftInputs :
          SendGiftStart(t, live, "u1", in[1], in[2])
    \/ \E t \in TaskIds : GiftFindLive(t)
    \/ \E t \in TaskIds : GiftFindBalance(t)
    \/ \E t \in TaskIds : GiftDebit(t)
    \/ \E t \in TaskIds : GiftCreate(t)
    \/ \E t \in TaskIds : GiftCredit(t)
    \/ \E t \in TaskIds : AddSetsFindDaily(t)
    \/ \E t \in TaskIds : AddSetsCreateDaily(t)
    \/ \E t \in TaskIds : AddSetsUpdate(t)
    \/ \E t \in TaskIds : AddSetsLog(t)
    \/ \E t \in TaskIds : PendingFindDaily(t)
    \/ \E t \in TaskIds : PendingUpdateBalance(t)
    \/ \E t \in TaskIds : GiftNotify(t)
    \/ \E t \in TaskIds, u \in Users, in \in WithdrawalInputs :
          CreateWithdrawalStart(t, u, in[1], in[2], in[3])
    \/ \E t \in TaskIds : CreateFindBalance(t)
    \/ \E t \in TaskIds : CreateFindUser(t)
    \/ \E t \in TaskIds : CreateRequest(t)
    \/ \E t \in TaskIds : CreateDebit(t)
    \/ \E t \in TaskIds : CreateNotify(t)
    \/ \E t \in TaskIds, id \in DOMAIN withdrawalRequest : ApproveStart(t, id)
    \/ \E t \in TaskIds : ApproveFind(t)
    \/ \E t \in TaskIds : ApproveProcessing(t)
    \/ \E t \in TaskIds : ApproveCompleted(t)
    \/ \E t \in TaskIds : ApproveBalance(t)
    \/ \E t \in TaskIds : ApproveNotify(t)
    \/ \E t \in TaskIds, id \in DOMAIN withdrawalRequest : RejectStart(t, id)
    \/ \E t \in TaskIds : RejectFind(t)
    \/ \E t \in TaskIds : RejectStatus(t)
    \/ \E t \in TaskIds : RejectCredit(t)
    \/ \E t \in TaskIds : RejectNotify(t)

SpecLedgerSeq == InitLedgerSeq /\ [][NextLedger]_vars

\* the process from its start: any environment, the start-up, then calls of
\* start, stop and getStatus between the runs of the distribution
InitJob ==
    /\ today = 1
    /\ adViews = [d \in Dates |-> IF d = 0 THEN 5000 ELSE 0]
    /\ dailySets = (<<"u1", 0>> :> ViewedRow(100)) @@ (<<"u2", 0>> :> ViewedRow(900))
    /\ userBalance = ("u1" :> Accrued(100)) @@ ("u2" :> Accrued(900))
    /\ dailyRevenuePool = <<>>
    /\ setDistribution = <<>>
    /\ withdrawalRequest = <<>>
    /\ activityLog = <<>>
    /\ tasks = [t \in {"t1"} |-> IdleTask]
    /\ returned = NothingReturned
    /\ env \in [production : BOOLEAN, enableJob : BOOLEAN]
    /\ boot = "module"
    /\ job = NoJob
    /\ timers = {}

NextJob ==
    \/ ModuleLoad
    \/ ServerStart
    \/ StartCall
    \/ Stop
    \/ GetStatus
    \/ NextDistribute
    \/ NextDay

SpecJob == InitJob /\ [][NextJob]_vars

\* the scheduling of the distribution: the clock moves on, the job fires
\* and the trigger is used again and again, every started run takes its
\* next step, and a storage call that is made again and again answers in
\* the end
FairSettle ==
    /\ WF_vars(NextDay)
    /\ SF_vars(CronFire("t1"))
    /\ SF_vars(RunNow("t1"))
    /\ SF_vars(DistFindPool("t1"))
    /\ SF_vars(DistAdCount("t1"))
    /\ SF_vars(DistAggregate("t1"))
    /\ SF_vars(DistUpsertPool("t1"))
    /\ SF_vars(DistFindMany("t1"))
    /\ SF_vars(DistCreateDistribution("t1"))
    /\ SF_vars(DistCreditBalance("t1"))
    /\ SF_vars(DistMarkDistributed("t1"))
    /\ SF_vars(DistNotify("t1"))

SpecSettleLive == InitSettleSeq /\ [][NextSettle]_vars /\ FairSettle

(* ======================================================================= *)
(*                               properties                                *)
(* ======================================================================= *)
\* the pool row of date d is marked distributed
Settled(d) == d \in DOMAIN dailyRevenuePool /\ dailyRevenuePool[d].isDistributed

\* task t is inside distributeDailyRevenue
Distributing(t) == tasks[t].op = "distribute" /\ tasks[t].pc # "idle"

\* sum of amountEarned over the SetDistribution rows of date d
CreditedFor(d) ==
    SumOver({i \in DOMAIN setDistribution : setDistribution[i].date = d},
            [i \in DOMAIN setDistribution |-> setDistribution[i].amountEarned])

Quiescent == \A t \in TaskIds : Idle(t)

\* C1: a distribution call that looks up the pool of a date already marked
\* distributed ends there with the outcome 'Already distributed' (or with
\* the error of a failed lookup) and changes no stored row: balances, pool
\* and SetDistribution rows stay as they were.
C1_SettledIsNoOp ==
    [][\A t \in TaskIds :
         (/\ tasks[t].pc = "st_findPool"
          /\ Settled(tasks[t].l.yesterday)
          /\ tasks'[t] # tasks[t])
         => /\ tasks'[t].pc = "idle"
            /\ returned'.result = "Already distributed" \/ DistStorageError(t)
            /\ UNCHANGED db]_vars

\* a call has returned 'Already distributed' for a date that was credited
C1_Witness ==
    /\ returned = [op |-> "distribute", result |-> "Already distributed"]
    /\ Settled(today - 1)
    /\ CreditedFor(today - 1) > 0

\* C2: two distribution calls for the same date are never both past the
\* 'already distributed' check and crediting users at the same time.
C2_NoConcurrentSettle ==
    \A t1, t2 \in TaskIds :
        (t1 # t2 /\ Distributing(t1) /\ Distributing(t2)
            /\ tasks[t1].l.yesterday = tasks[t2].l.yesterday)
        => ~(tasks[t1].l.distributedCount > 0 /\ tasks[t2].l.distributedCount > 0)

\* C5: for every date with a pool row, the amounts credited for the date
\* sum to at most the distribution pool, up to the rounding of the value
\* per set (half a unit per tenth of a set).
C5_CreditedWithinPool ==
    \A d \in DOMAIN dailyRevenuePool :
        2 * CreditedFor(d) <= 2 * dailyRevenuePool[d].distributionPool
                                 + dailyRevenuePool[d].totalSets

\* C6: when no call is running and the date is not marked distributed (the
\* runs so far failed or had nothing to do), nothing of a run is left: no
\* SetDistribution row and no credited balance.
C6_FailedRunLeavesNothing ==
    (Quiescent /\ ~Settled(0))
    => /\ setDistribution = <<>>
       /\ \A u \in Users : /\ userBalance[u].availableBalance = 0
                            /\ userBalance[u].lifetimeEarnings = 0

(* ----------------------------- accrual --------------------------------- *)
CategoryFields == {FieldOf[a] : a \in ActionTypes}

CategorySum(row) == SumOver(CategoryFields, row)

\* C4: in every DailySets row, totalSets is the sum of the category columns.
C4_TotalIsSumOfCategories ==
    \A k \in DOMAIN dailySets : dailySets[k].totalSets = CategorySum(dailySets[k])

\* a row that took accepted accruals of two categories, after a call was
\* turned down at the limit
C4_Witness ==
    \E k \in DOMAIN dailySets :
        /\ dailySets[k].liveStreamSets > 0
        /\ dailySets[k].viewSets > 0
        /\ returned.result = "Daily limit reached"

\* task t is an addSets call for a limited type that has the row at hand:
\* read, or about to be created empty
AtLimitCheck(t) ==
    /\ tasks[t].op = "addSets"
    /\ tasks[t].l.actionType \in LimitedTypes
    /\ LET key == <<tasks[t].l.userId, tasks[t].l.today>>
       IN \/ tasks[t].pc = "as_findDaily" /\ key \in DOMAIN dailySets
          \/ tasks[t].pc = "as_createDaily" /\ key \notin DOMAIN dailySets

\* the running total of the type that the call of task t finds
SeenTotal(t) ==
    LET key == <<tasks[t].l.userId, tasks[t].l.today>>
    IN IF key \in DOMAIN dailySets
         THEN dailySets[key][FieldOf[tasks[t].l.actionType]]
         ELSE 0

\* C7: an addSets call for a limited type that finds the running total at
\* or above the limit ends with 'Daily limit reached' and changes no stored
\* row; a call that finds it below the limit and whose amount takes it to
\* exactly the limit passes the test and goes on to its update.
C7_LimitRejectsWithoutMutation ==
    [][\A t \in TaskIds :
         (AtLimitCheck(t) /\ tasks'[t] # tasks[t])
         => LET a == tasks[t].l.actionType
                v == SeenTotal(t)
            IN /\ v >= LimitOf[a]
                    => /\ tasks'[t].pc = "idle"
                       /\ returned'.result = "Daily limit reached"
                             \/ AddSetsStorageError(t)
                       /\ UNCHANGED db
               /\ (v < LimitOf[a] /\ v + tasks[t].l.amount = LimitOf[a])
                    => \/ tasks'[t].pc = "as_update"
                       \/ AddSetsStorageError(t)]_vars

\* the running total stands at exactly the limit and the next call of the
\* type was turned down
C7_Witness ==
    /\ returned = [op |-> "addSets", result |-> "Daily limit reached"]
    /\ <<"u1", today>> \in DOMAIN dailySets
    /\ dailySets[<<"u1", today>>].liveStreamSets = LimitOf.live_stream
    /\ Len(activityLog) > 0

\* C8: the column of a limited type never holds more than its daily limit.
C8_CounterWithinLimit ==
    \A k \in DOMAIN dailySets : \A a \in LimitedTypes :
        dailySets[k][FieldOf[a]] <= LimitOf[a]

(* ---------------------------- withdrawals ------------------------------ *)
\* C3: the availableBalance of every user is at least zero in every state.
C3_AvailableNonNegative ==
    \A u \in Users : userBalance[u].availableBalance >= 0

\* task t is inside createWithdrawal
Creating(t) == tasks[t].op = "createWithdrawal" /\ tasks[t].pc # "idle"

\* fee(method) of the method table
FeeOf(method) == WITHDRAWAL_METHODS[method].fee

\* the row a request for amount by method of userId is stored as
PendingRow(userId, amount, method) ==
    [userId |-> userId, amount |-> amount, method |-> method,
     fee |-> FeeOf(method), netAmount |-> amount - FeeOf(method),
     status |-> "pending"]

\* C9: within a createWithdrawal call, the call reports success only after
\* its debit, the debit follows the creation of its request, the creation
\* appends exactly one row in status pending with fee = fee(method) and
\* netAmount = amount - fee and touches no balance, the debit lowers the
\* availableBalance of the user by exactly amount + fee(method) and changes
\* no other balance field, no other user and no request, and no other step
\* of the call writes anything.
C9_CreateFreezesAmountPlusFee ==
    [][\A t \in TaskIds :
         (Creating(t) /\ tasks'[t] # tasks[t])
         => LET l == tasks[t].l
                from == tasks[t].pc
                to == tasks'[t].pc
            IN /\ (to = "idle" /\ returned'.result = "success")
                    => from = "cw_notify"
               /\ to = "cw_notify" => from = "cw_debit"
               /\ to = "cw_debit" => from = "cw_create"
               /\ (from = "cw_create" /\ to = "cw_debit")
                    => /\ withdrawalRequest' =
                            Append(withdrawalRequest,
                                   PendingRow(l.userId, l.amount, l.method))
                       /\ UNCHANGED userBalance
               /\ (from = "cw_debit" /\ to = "cw_notify")
                    => /\ userBalance' =
                            [userBalance EXCEPT ![l.userId].availableBalance =
                                                   @ - (l.amount + FeeOf(l.method))]
                       /\ UNCHANGED withdrawalRequest
               /\ ~(from = "cw_create" /\ to = "cw_debit")
                    /\ ~(from = "cw_debit" /\ to = "cw_notify")
                    => UNCHANGED db]_vars

\* createWithdrawal has reported success: u1, who had earned $3.30, holds
\* nothing available, one request for $3.00 by PayPal is pending and the
\* other balance fields are as they were
C9_Witness ==
    /\ returned = [op |-> "createWithdrawal", result |-> "success"]
    /\ withdrawalRequest = <<PendingRow("u1", 30000, "paypal")>>
    /\ userBalance["u1"] = [EarnedBalance(33000) EXCEPT !.availableBalance = 0]

\* task t is inside rejectWithdrawal
Rejecting(t) == tasks[t].op = "rejectWithdrawal" /\ tasks[t].pc # "idle"

\* C10: the step of rejectWithdrawal that releases the funds raises the
\* availableBalance of the owner by exactly amount + fee(method) of the
\* request, which is what its creation lowered it by; no step of
\* rejectWithdrawal changes totalWithdrawn or lastWithdrawalAt, and no other
\* step of it changes availableBalance.
C10_RejectRestoresFrozen ==
    [][\A t \in TaskIds :
         (Rejecting(t) /\ tasks'[t] # tasks[t])
         => /\ \A u \in Users :
                 /\ userBalance'[u].totalWithdrawn = userBalance[u].totalWithdrawn
                 /\ userBalance'[u].lastWithdrawal = userBalance[u].lastWithdrawal
            /\ IF tasks[t].pc = "rj_credit" /\ tasks'[t].pc = "rj_notify"
                 THEN LET r == withdrawalRequest[tasks[t].l.id]
                      IN userBalance' =
                           [userBalance EXCEPT ![r.userId].availableBalance =
                                                  @ + (r.amount + FeeOf(r.method))]
                 ELSE UNCHANGED userBalance]_vars

\* a request of u1 was created and then rejected, nothing else was asked
\* for: the balance row of u1 is what it was before the request
C10_Witness ==
    /\ returned = [op |-> "rejectWithdrawal", result |-> "success"]
    /\ Len(withdrawalRequest) = 1
    /\ withdrawalRequest[1].status = "rejected"
    /\ userBalance["u1"] = EarnedBalance(33000)
\* task t is inside approveWithdrawal
Approving(t) == tasks[t].op = "approveWithdrawal" /\ tasks[t].pc # "idle"

\* the balance fields that approveWithdrawal is to leave alone
SpendableFields ==
    {"availableBalance", "pendingBalance", "giftBalance", "lifetimeEarnings"}

\* C11: no step of approveWithdrawal changes the availableBalance,
\* pendingBalance, giftBalance or lifetimeEarnings of any user; the only
\* request field it writes is the status of its request; its balance step
\* adds the amount of the request to the totalWithdrawn of the owner and
\* sets lastWithdrawalAt to the current day, and no other step of it writes
\* a balance.
C11_ApproveLeavesAvailable ==
    [][\A t \in TaskIds :
         (Approving(t) /\ tasks'[t] # tasks[t])
         => /\ \A u \in Users : \A f \in SpendableFields :
                 userBalance'[u][f] = userBalance[u][f]
            /\ \E status \in {"pending", "processing", "completed", "rejected"} :
                 \/ UNCHANGED withdrawalRequest
                 \/ withdrawalRequest' =
                      [withdrawalRequest EXCEPT ![tasks[t].l.id].status = status]
            /\ IF tasks[t].pc = "ap_balance" /\ tasks'[t].pc = "ap_notify"
                 THEN LET r == withdrawalRequest[tasks[t].l.id]
                      IN userBalance' =
                           [userBalance EXCEPT
                              ![r.userId].totalWithdrawn = @ + r.amount,
                              ![r.userId].lastWithdrawal = today]
                 ELSE UNCHANGED userBalance]_vars

\* a $3.00 request of u1, who had earned $3.30, was approved: it is
\* completed, totalWithdrawn is $3.00 and the available balance is still the
\* $0.00 that the creation left
C11_Witness ==
    /\ returned = [op |-> "approveWithdrawal", result |-> "success"]
    /\ Len(withdrawalRequest) = 1
    /\ withdrawalRequest[1].status = "completed"
    /\ userBalance["u1"].totalWithdrawn = 30000
    /\ userBalance["u1"].lastWithdrawal = today
    /\ userBalance["u1"].availableBalance = 0
    /\ userBalance["u1"].lifetimeEarnings = 33000
\* C12: the availability check and the debit of createWithdrawal act as one
\* step for the user: when a call debits, the availableBalance it debits
\* still covers its amount + fee, so the calls that succeed never take more
\* than the user held.
C12_CheckAndDebitAtomic ==
    [][\A t \in TaskIds :
         (Creating(t) /\ tasks[t].pc = "cw_debit" /\ tasks'[t].pc = "cw_notify")
         => userBalance[tasks[t].l.userId].availableBalance
               >= tasks[t].l.amount + FeeOf(tasks[t].l.method)]_vars
\* the requests of a user that stand in the way of a new one: still pending,
\* or completed (every day of the model lies within one 30-day window, as
\* MaxDay is below WithdrawalIntervalDays)
Outstanding(userId) ==
    {i \in DOMAIN withdrawalRequest :
        /\ withdrawalRequest[i].userId = userId
        /\ withdrawalRequest[i].status \in {"pending", "completed"}}

\* C13: createWithdrawal writes a request for a user only when the user has
\* no request of the last 30 days that is still pending or was completed.
C13_OneRequestPerWindow ==
    [][\A t \in TaskIds :
         (Creating(t) /\ tasks[t].pc = "cw_create" /\ tasks'[t].pc = "cw_debit")
         => Outstanding(tasks[t].l.userId) = {}]_vars
\* the moves of the status of a request
StatusMoves ==
    {<<"pending", "processing">>, <<"processing", "completed">>,
     <<"pending", "rejected">>}

\* C14: every request is created pending, no request is removed, and the
\* status of a request changes only by pending -> processing,
\* processing -> completed or pending -> rejected, so a completed or
\* rejected request keeps its status.
C14_StatusLifecycle ==
    [][/\ Len(withdrawalRequest') >= Len(withdrawalRequest)
       /\ \A i \in DOMAIN withdrawalRequest' :
            IF i \in DOMAIN withdrawalRequest
              THEN \/ withdrawalRequest'[i].status = withdrawalRequest[i].status
                   \/ <<withdrawalRequest[i].status, withdrawalRequest'[i].status>>
                         \in StatusMoves
              ELSE withdrawalRequest'[i].status = "pending"]_vars
\* task t is an approveWithdrawal or rejectWithdrawal call about to read a
\* request that is not pending
FindsProcessed(t) ==
    /\ tasks[t].pc \in {"ap_find", "rj_find"}
    /\ tasks[t].l.id \in DOMAIN withdrawalRequest
    /\ withdrawalRequest[tasks[t].l.id].status # "pending"

\* C15: an approveWithdrawal or rejectWithdrawal call that reads a request
\* in status processing, completed or rejected ends there with 'Withdrawal
\* already processed' (or with the error of the failed read) and changes no
\* stored row: request and balances stay as they were.
C15_ProcessedIsRefused ==
    [][\A t \in TaskIds :
         (FindsProcessed(t) /\ tasks'[t] # tasks[t])
         => /\ tasks'[t].pc = "idle"
            /\ returned'.op = tasks[t].op
            /\ returned'.result \in {"Withdrawal already processed", "storage error"}
            /\ UNCHANGED db]_vars

\* rejectWithdrawal was refused for a request that approveWithdrawal had
\* completed: the request is still completed and the balance was not
\* credited
C15_Witness ==
    /\ returned = [op |-> "rejectWithdrawal",
                   result |-> "Withdrawal already processed"]
    /\ Len(withdrawalRequest) = 1
    /\ withdrawalRequest[1].status = "completed"
    /\ userBalance["u1"] = [EarnedBalance(33000) EXCEPT
                              !.availableBalance = 0,
                              !.totalWithdrawn = 30000,
                              !.lastWithdrawal = 1]
(* ----------------------------- settlement ------------------------------ *)
\* task t is a distribution run that has not yet found sets for its date,
\* and the date has none
BeforeSetsOfEmptyDate(t) ==
    /\ Distributing(t)
    /\ tasks[t].pc \in {"st_findPool", "st_adCount", "st_aggregate"}
    /\ AggregateTotalSets(tasks[t].l.yesterday) = 0

\* C16: a distribution run for a date whose DailySets rows sum to zero (or
\* that has no rows) writes nothing on its way to the aggregate, and its
\* aggregate step ends the run with 'No sets to distribute' (or with the
\* error of the failed call) before the division: no balance, no
\* SetDistribution row and no pool row is written.
C16_NoSetsNoMutation ==
    [][\A t \in TaskIds :
         (BeforeSetsOfEmptyDate(t) /\ tasks'[t] # tasks[t])
         => /\ UNCHANGED db
            /\ tasks[t].pc = "st_aggregate"
                 => /\ tasks'[t].pc = "idle"
                    /\ returned'.op = "distribute"
                    /\ returned'.result \in {"No sets to distribute", "error"}]_vars

\* a run for a date whose only row holds zero sets has answered 'No sets to
\* distribute': there is no pool row, no SetDistribution row, no credit
C16_Witness ==
    /\ returned = [op |-> "distribute", result |-> "No sets to distribute"]
    /\ today = 1
    /\ \E u \in Users : <<u, 0>> \in DOMAIN dailySets
    /\ AggregateTotalSets(0) = 0
    /\ adViews[0] = 5000
    /\ dailyRevenuePool = <<>>
    /\ setDistribution = <<>>
    /\ \A u \in Users : userBalance[u] = NewUserBalance
(* ------------------------------- ledger -------------------------------- *)
\* C17: no step lowers the lifetimeEarnings or the totalWithdrawn of a user.
C17_EarningsAndWithdrawnMonotonic ==
    [][\A u \in Users :
         /\ userBalance'[u].lifetimeEarnings >= userBalance[u].lifetimeEarnings
         /\ userBalance'[u].totalWithdrawn >= userBalance[u].totalWithdrawn]_vars

\* every writer has acted: u1 was credited by a distribution, paid for a
\* rose that credited u2, and had a withdrawal approved
C17_Witness ==
    /\ userBalance["u1"].lifetimeEarnings > 66000
    /\ userBalance["u1"].availableBalance < 66000
    /\ userBalance["u2"].lifetimeEarnings > 0
    /\ userBalance["u1"].totalWithdrawn > 0
    /\ \E i \in DOMAIN withdrawalRequest : withdrawalRequest[i].status = "rejected"
\* C18: the step of createWithdrawal that reads the balance refuses the
\* call with 'Insufficient balance' and no write when availableBalance is
\* below amount + fee(method), and does not refuse it for funds when
\* availableBalance is amount + fee or more; a debit of exactly the
\* available balance leaves it at 0.
C18_FundsThreshold ==
    [][\A t \in TaskIds :
         (Creating(t) /\ tasks'[t] # tasks[t])
         => LET l == tasks[t].l
                available == userBalance[l.userId].availableBalance
                needed == l.amount + FeeOf(l.method)
            IN /\ (tasks[t].pc = "cw_findBalance" /\ available < needed)
                    => /\ tasks'[t].pc = "idle"
                       /\ returned'.result \in {"Insufficient balance", "storage error"}
                       /\ UNCHANGED db
               /\ (tasks[t].pc = "cw_findBalance" /\ available >= needed)
                    => ~(tasks'[t].pc = "idle"
                           /\ returned'.result = "Insufficient balance")
               /\ (tasks[t].pc = "cw_findBalance" /\ available >= needed
                     /\ userBalance[l.userId].lastWithdrawal = -1)
                    => \/ tasks'[t].pc = "cw_findUser"
                       \/ tasks'[t].pc = "idle" /\ returned'.result = "storage error"
               /\ (tasks[t].pc = "cw_debit" /\ tasks'[t].pc = "cw_notify"
                     /\ available = needed)
                    => userBalance'[l.userId].availableBalance = 0]_vars

\* a request of u1 was refused for funds at a balance of $3.00, which is
\* below the $3.30 of the smallest request: no request was written and the
\* balance row is as it was
C18_Witness ==
    /\ returned = [op |-> "createWithdrawal", result |-> "Insufficient balance"]
    /\ userBalance["u1"] = EarnedBalance(30000)
    /\ withdrawalRequest = <<>>
Abs(x) == IF x < 0 THEN 0 - x ELSE x

\* amount is sets x pool / total, to within the rounding of the value of a
\* set (half a money unit for each tenth of a set)
IsShareOf(amount, sets, pool, total) ==
    2 * Abs(amount * total - sets * pool) <= sets * total

\* C19: a distribution run stores the pool of its date as impressions / 1000
\* x 6 x 0.6 and the value of a set as that pool divided by the total of the
\* sets, and creates for each user a row whose amount is the sets of the
\* user x pool / total, which is what it then adds to the availableBalance
\* of the user; with 5000 impressions and 100 sets in total the pool is
\* $18.00, the value of a set $0.18 and the amount for 10 sets exactly $1.80.
C19_SettlementArithmetic ==
    [][\A t \in TaskIds :
         (Distributing(t) /\ tasks'[t] # tasks[t] /\ tasks'[t].pc # "idle")
         => LET l == tasks[t].l
                d == l.yesterday
                pool == adViews[d] * 36
                total == AggregateTotalSets(d)
                scenario == adViews[d] = 5000 /\ total = 1000
            IN /\ tasks[t].pc = "st_upsert"
                    => /\ dailyRevenuePool'[d].distributionPool = pool
                       /\ dailyRevenuePool'[d].totalSets = total
                       /\ IsShareOf(dailyRevenuePool'[d].setValueInDollars, 1, pool, total)
                       /\ scenario
                            => /\ dailyRevenuePool'[d].distributionPool = 180000
                               /\ dailyRevenuePool'[d].setValueInDollars * 10 = 1800
               /\ tasks[t].pc = "st_createDist"
                    => LET r == setDistribution'[Len(setDistribution')]
                       IN /\ Len(setDistribution') = Len(setDistribution) + 1
                          /\ r.userId = l.userSets.userId
                          /\ r.totalSets = dailySets[<<r.userId, d>>].totalSets
                          /\ IsShareOf(r.amountEarned, r.totalSets, pool, total)
                          /\ (scenario /\ r.totalSets = 100) => r.amountEarned = 18000
               /\ tasks[t].pc = "st_creditBalance"
                    => LET u == l.userSets.userId
                           sets == dailySets[<<u, d>>].totalSets
                           credit == userBalance'[u].availableBalance
                                       - userBalance[u].availableBalance
                       IN /\ IsShareOf(credit, sets, pool, total)
                          /\ (scenario /\ sets = 100) => credit = 18000]_vars

\* the run for a date with 5000 impressions, u1 holding 10 sets and u2 90,
\* has succeeded: the pool is $18.00, the value of a tenth of a set $0.018,
\* u1 holds $1.80 and u2 $16.20
C19_Witness ==
    /\ returned = [op |-> "distribute", result |-> "success"]
    /\ adViews[0] = 5000
    /\ Settled(0)
    /\ dailyRevenuePool[0].distributionPool = 180000
    /\ dailyRevenuePool[0].totalSets = 1000
    /\ dailyRevenuePool[0].setValueInDollars = 180
    /\ Len(setDistribution) = 2
    /\ userBalance["u1"].availableBalance = 18000
    /\ userBalance["u2"].availableBalance = 162000
\* no run starts any more: the bound on SetDistribution rows is reached
RunsExhausted == Len(setDistribution) >= MaxDistributions

\* C20: the date for which sets were earned (day 0) is settled in the end,
\* whatever runs failed or were missed before (as long as runs can start).
C20_EventuallySettled ==
    (AggregateTotalSets(0) > 0) ~> (Settled(0) \/ RunsExhausted)
\* C21: no two SetDistribution rows share user and date, and every row
\* belongs to a user whose DailySets row of the date holds sets.
C21_OneDistributionPerUserAndDate ==
    /\ \A i, j \in DOMAIN setDistribution :
         (/\ setDistribution[i].userId = setDistribution[j].userId
          /\ setDistribution[i].date = setDistribution[j].date)
         => i = j
    /\ \A i \in DOMAIN setDistribution :
         LET key == <<setDistribution[i].userId, setDistribution[i].date>>
         IN key \in DOMAIN dailySets /\ dailySets[key].totalSets > 0
\* the users that hold sets on date d
EarnersOf(d) ==
    {u \in Users : <<u, d>> \in DOMAIN dailySets /\ dailySets[<<u, d>>].totalSets > 0}

\* every user with sets on date d has a SetDistribution row of the date and
\* holds the credit of it
AllCredited(d) ==
    \A u \in EarnersOf(d) :
        \E i \in DOMAIN setDistribution :
            /\ setDistribution[i].userId = u
            /\ setDistribution[i].date = d
            /\ setDistribution[i].totalSets = dailySets[<<u, d>>].totalSets
            /\ userBalance[u].lifetimeEarnings >= setDistribution[i].amountEarned
            /\ userBalance[u].availableBalance >= setDistribution[i].amountEarned

\* C22: a pool that is marked distributed stays marked, a pool is marked
\* only by a run that has gone through all users with sets of the date, and
\* in every state in which a pool is marked each of these users has a
\* SetDistribution row and the credit.
C22_MarkIsCommitPoint ==
    [][/\ \A d \in Dates : Settled(d) => Settled(d)'
       /\ \A d \in Dates : Settled(d)' => AllCredited(d)'
       /\ \A t \in TaskIds :
            (tasks[t].pc = "st_markDistributed" /\ tasks'[t].pc = "st_notify")
            => /\ tasks[t].l.usersWithSets = {}
               /\ tasks[t].l.distributedCount
                    = Cardinality(EarnersOf(tasks[t].l.yesterday))]_vars

\* the date of both users, 10 sets each and 5000 impressions, is marked:
\* both hold their $9.00 and a later call has found the date distributed
C22_Witness ==
    /\ Settled(0)
    /\ adViews[0] = 5000
    /\ EarnersOf(0) = Users
    /\ \A u \in Users : userBalance[u].lifetimeEarnings = 90000
    /\ Len(setDistribution) = 2
    /\ returned.result = "Already distributed"
\* C23: a distribution run writes no DailySets row, no withdrawal request
\* and no activity-log entry; the only balances it writes are those of users
\* with sets on its date, one at each credit step: availableBalance and
\* lifetimeEarnings go up by the sets of the user x the value of a set of
\* the pool row, pendingBalance becomes zero, giftBalance, totalWithdrawn
\* and lastWithdrawalAt stay.
C23_SettlementFrame ==
    [][\A t \in TaskIds :
         (Distributing(t) /\ tasks'[t] # tasks[t])
         => /\ UNCHANGED <<dailySets, withdrawalRequest, activityLog, adViews>>
            /\ IF tasks[t].pc = "st_creditBalance" /\ tasks'[t].pc # "idle"
                 THEN LET d == tasks[t].l.yesterday
                          u == tasks[t].l.userSets.userId
                          amount == dailySets[<<u, d>>].totalSets
                                      * dailyRevenuePool[d].setValueInDollars
                      IN /\ u \in EarnersOf(d)
                         /\ userBalance' =
                              [userBalance EXCEPT
                                 ![u] = [giftBalance |-> @.giftBalance,
                                         totalWithdrawn |-> @.totalWithdrawn,
                                         lastWithdrawal |-> @.lastWithdrawal,
                                         availableBalance |-> @.availableBalance + amount,
                                         lifetimeEarnings |-> @.lifetimeEarnings + amount,
                                         pendingBalance |-> 0]]
                 ELSE UNCHANGED userBalance]_vars

\* the run for a date on which only u1 held sets (10, with 5000
\* impressions) has succeeded: u1 holds the $18.00 and no pending estimate,
\* the row of u2 and the DailySets row are as they were
C23_Witness ==
    /\ returned = [op |-> "distribute", result |-> "success"]
    /\ adViews[0] = 5000
    /\ EarnersOf(0) = {"u1"}
    /\ dailySets[<<"u1", 0>>] = ViewedRow(100)
    /\ userBalance["u1"] = [NewUserBalance EXCEPT !.availableBalance = 180000,
                                                  !.lifetimeEarnings = 180000]
    /\ userBalance["u2"] = NewUserBalance
    /\ <<"u2", 0>> \notin DOMAIN dailySets
(* ------------------------- accrual, overlapping ------------------------ *)
\* C24: overlapping addSets calls of a user on a day are all carried out: a
\* call that found no row for (user, day) and is about to create it is never
\* overtaken by another call that creates the row, so its create cannot be
\* turned down and its amount is not lost.
C24_CreateNotOvertaken ==
    \A t \in TaskIds :
        (tasks[t].op = "addSets" /\ tasks[t].pc = "as_createDaily")
        => <<tasks[t].l.userId, tasks[t].l.today>> \notin DOMAIN dailySets
\* task t is inside addSets (called directly, not from sendGift)
Accruing(t) == tasks[t].op = "addSets" /\ tasks[t].pc # "idle"

\* C25: an addSets call for an action type that the switch does not know
\* changes no stored row on any of its steps: no DailySets row is created
\* or changed, no ActivityLog entry is appended, no balance is written.
C25_UnknownTypeChangesNothing ==
    [][\A t \in TaskIds :
         (/\ Accruing(t)
          /\ tasks[t].l.actionType \notin ActionTypes
          /\ tasks'[t] # tasks[t])
         => UNCHANGED db]_vars
(* ----------------------- withdrawals, validation ----------------------- *)
\* the messages of the validations of createWithdrawal
ValidationMessages ==
    {"Invalid withdrawal method", "Minimum amount",
     "You can only withdraw once per month", "Valid PayPal email is required",
     "Valid phone number is required", "IBAN and account name are required",
     "First name and last name are required", "Invalid payment method"}

\* a createWithdrawal call ends in this step: at its head, or task t returns
CreateEnds(t) ==
    /\ returned'.op = "createWithdrawal"
    /\ \/ tasks' = tasks /\ returned' # returned
       \/ Creating(t) /\ tasks'[t].pc = "idle"

\* C26: a createWithdrawal call that ends with the message of a validation
\* has changed no stored row: it wrote nothing before (no call is past its
\* head with an unknown method or an amount below the minimum, and no step
\* before the creation of the request writes), and the step that refuses it
\* writes nothing; a call that reads a balance with a withdrawal completed
\* less than 30 days ago, or whose payment details do not pass, is refused
\* at that step.
C26_ValidationChangesNothing ==
    [][\A t \in TaskIds :
         /\ (CreateEnds(t) /\ returned'.result \in ValidationMessages)
              => UNCHANGED db
         /\ Creating(t)
              => /\ tasks[t].l.method \in DOMAIN WITHDRAWAL_METHODS
                 /\ tasks[t].l.amount >= WITHDRAWAL_METHODS[tasks[t].l.method].minAmount
         /\ (Creating(t) /\ tasks[t].pc \in {"cw_findBalance", "cw_findUser"}
               /\ tasks'[t] # tasks[t])
              => /\ UNCHANGED db
                 /\ LET l == tasks[t].l
                        balance == userBalance[l.userId]
                        recent == /\ balance.lastWithdrawal # -1
                                  /\ today - balance.lastWithdrawal < 30
                        details == ValidatePaymentDetails(l.method, l.details)
                    IN /\ (tasks[t].pc = "cw_findBalance" /\ recent)
                            => /\ tasks'[t].pc = "idle"
                               /\ returned'.result \in
                                    {"You can only withdraw once per month",
                                     "Insufficient balance", "storage error"}
                       /\ (tasks[t].pc = "cw_findUser" /\ details # "ok")
                            => /\ tasks'[t].pc = "idle"
                               /\ returned'.result \in {details, "storage error"}]_vars

\* u1, who held $6.60, had a $3.00 withdrawal completed and asked again:
\* the call was refused for the month, there is still one request and the
\* balance is the $3.30 the first request left
C26_Witness ==
    /\ returned = [op |-> "createWithdrawal",
                   result |-> "You can only withdraw once per month"]
    /\ Len(withdrawalRequest) = 1
    /\ withdrawalRequest[1].status = "completed"
    /\ userBalance["u1"].availableBalance = 33000
    /\ userBalance["u1"].totalWithdrawn = 30000
\* C27: an addSets call that has incremented the counters of the row is
\* reported to its caller as a success: once past its update, the call does
\* not end with a failure.
C27_IncrementedMeansSuccess ==
    [][\A t \in TaskIds :
         (/\ Accruing(t)
          /\ tasks[t].pc \in {"as_log", "up_findDaily", "up_balance"}
          /\ tasks'[t].pc = "idle")
         => returned' = [op |-> "addSets", result |-> "success"]]_vars

\* a step of the scheduler: a timer is registered only when none runs, and
\* is then the one the handle names; a timer is removed only by clearing
\* the handle; getStatus reports isRunning as the registration stands; a
\* run that starts, from the callback or from runNow, enters
\* distributeDailyRevenue at its first statement
SchedulerStep ==
    /\ timers' # timers =>
          IF timers = {}
          THEN timers' = {job'} /\ job' # NoJob
          ELSE timers' = {} /\ job' = NoJob
    /\ (returned' # returned /\ returned'.op = "getStatus") =>
          (returned'.isRunning <=> timers # {})
    /\ \A t \in TaskIds :
          (tasks[t].pc = "idle" /\ tasks'[t].pc # "idle") =>
             /\ tasks'[t].op = "distribute"
             /\ tasks'[t].pc = "st_findPool"

\* C28: after any sequence of start, stop and getStatus calls, the double
\* start of the module and the server included, at most one daily timer
\* runs and the handle is held exactly when it runs; start with a handle
\* held registers nothing, stop clears the handle, getStatus().isRunning is
\* true exactly when a timer is registered, and the callback and runNow
\* enter the same settlement function.
C28_AtMostOneTimer ==
    /\ [](Cardinality(timers) <= 1 /\ (job # NoJob <=> timers # {}))
    /\ [][SchedulerStep]_vars

\* in production the module and the server have both called start, one
\* timer runs, and getStatus has reported it
C28_Witness ==
    /\ env.production
    /\ boot = "listening"
    /\ Cardinality(timers) = 1
    /\ job \in timers
    /\ returned.op = "getStatus"
    /\ returned.isRunning

\* the call of task t has moved the money of request id: approveWithdrawal
\* has added the amount to totalWithdrawn, or rejectWithdrawal has released
\* amount + fee to availableBalance, and the call has not returned yet
MovedMoney(t, id) ==
    /\ tasks[t].pc \in {"ap_notify", "rj_notify"}
    /\ tasks[t].l.id = id

\* C29: of the approveWithdrawal and rejectWithdrawal calls made on one
\* request, at most one moves its money: the request is never paid out
\* and refunded as well, and never refunded by two rejects.
C29_PaidOrRefundedOnce ==
    \A id \in DOMAIN withdrawalRequest :
       Cardinality({t \in TaskIds : MovedMoney(t, id)}) <= 1

\* the requests of userId whose funds are to be frozen: those pending, in
\* processing or completed, but for a request that its createWithdrawal
\* call has just written and is about to debit
BackedRequests(userId) ==
    {id \in DOMAIN withdrawalRequest :
       /\ withdrawalRequest[id].userId = userId
       /\ withdrawalRequest[id].status \in {"pending", "processing", "completed"}
       /\ ~\E t \in TaskIds : /\ Creating(t)
                               /\ tasks[t].pc = "cw_debit"
                               /\ tasks[t].l.id = id}

\* amount + fee of request id
FrozenFor(id) == withdrawalRequest[id].amount + withdrawalRequest[id].fee

\* what has been taken from the availableBalance of userId and not given
\* back, where nothing but withdrawals spends the earnings
HeldFunds(userId) ==
    userBalance[userId].lifetimeEarnings - userBalance[userId].availableBalance

\* C30: every pending request is backed by frozen funds: the funds taken
\* from the availableBalance of a user and not given back cover amount +
\* fee of each of the user's requests that is pending or was approved, so
\* that a reject never releases funds that were not frozen.
C30_PendingIsBacked ==
    \A u \in Users :
       HeldFunds(u) >= SumOver(BackedRequests(u), [id \in DOMAIN withdrawalRequest |-> FrozenFor(id)])
====
